---- MODULE Spec2Model ----
(***************************************************************************)
(* Model of gplugins/gmsh/xyz_mesh.py: define_edgeport, define_prisms and  *)
(* xyz_mesh.  xyz_mesh is a straight-line procedure; each of its blocks is *)
(* one action and pc is the position in the function body.                 *)
(*                                                                         *)
(* Representation of the Python values:                                    *)
(*   - Optional[T]: None is <<>>, a present value v is <<v>>.              *)
(*   - a shapely geometry (Polygon / MultiPolygon) is a set of polygons,   *)
(*     a polygon is the sequence of its vertices <<x, y>>; the empty set   *)
(*     is the geometry whose is_empty is True.                             *)
(*   - LayerStack.layers is an insertion-ordered dict:                     *)
(*     [keys |-> sequence of layer names, val |-> name -> LayerLevel].     *)
(*   - a LayerLevel is a record; z_to_bias is None (<<>>) or the pair      *)
(*     <<coords, biases>> of two sequences.                                *)
(*   - numbers are integers (lengths in a fixed small unit).               *)
(***************************************************************************)
EXTENDS Integers, Sequences, FiniteSets, TLC

VARIABLES
    args,                \* the arguments of the xyz_mesh call (never assigned)
    pc,                  \* position in xyz_mesh's body
    layer_polygons_dict, \* local of xyz_mesh: layer name -> geometry
    layer_stack,         \* local of xyz_mesh (rebound at line 257)
    prisms_list,         \* local of xyz_mesh: the entity list
    resolutions,         \* local of xyz_mesh (rebound at lines 302-308)
    ep_idx,              \* number of edge_ports entries define_edgeport was called for
    raised,              \* "" or the name of the exception that ended the call
    entities_list        \* Optional: the entities_list argument of model.mesh

vars == <<args, pc, layer_polygons_dict, layer_stack, prisms_list,
          resolutions, ep_idx, raised, entities_list>>

-----------------------------------------------------------------------------
(* Bounds of the model *)

MaxLayers == 2
MaxLevels == 2
MaxScale == 2
MaxEdgePorts == 2

-----------------------------------------------------------------------------
(* Python helpers *)

None == <<>>
Some(v) == <<v>>

SetMin(S) == CHOOSE x \in S : \A y \in S : x <= y
SetMax(S) == CHOOSE x \in S : \A y \in S : x >= y
MinOf(a, b) == IF a <= b THEN a ELSE b

\* d | {k: v} for an insertion-ordered dict: an existing key keeps its
\* position and takes the new value, a new key goes last.
DictUnion(d, k, v) ==
    [keys |-> IF k \in DOMAIN d.val THEN d.keys ELSE Append(d.keys, k),
     val  |-> [x \in (DOMAIN d.val) \cup {k} |-> IF x = k THEN v ELSE d.val[x]]]

\* d[k] = v for a plain dict
DictSet(d, k, v) == [x \in (DOMAIN d) \cup {k} |-> IF x = k THEN v ELSE d[x]]

\* numpy: array * scalar
ArrayTimes(a, k) == [i \in 1..Len(a) |-> a[i] * k]

\* numpy: array + scalar
ArrayPlus(a, k) == [i \in 1..Len(a) |-> a[i] + k]

\* (variant of DictZip: a repeated key keeps the value of its first occurrence)
DictZipKeepFirst(ks, vs) ==
    LET n == MinOf(Len(ks), Len(vs))
    IN  [k \in {ks[i] : i \in 1..n} |-> vs[SetMin({i \in 1..n : ks[i] = k})]]

\* dict(zip(ks, vs)): zip stops at the shorter sequence, a repeated key keeps
\* the value of its last occurrence.
DictZip(ks, vs) ==
    LET n == MinOf(Len(ks), Len(vs))
    IN  [k \in {ks[i] : i \in 1..n} |-> vs[SetMax({i \in 1..n : ks[i] = k})]]

-----------------------------------------------------------------------------
(* shapely *)

\* shapely.geometry.Polygon(shell): the polygon with the given vertices
Polygon(shell) == {shell}

\* shapely.affinity.scale(geom, xfact, yfact, origin=(0, 0, 0))
scale(geom, xfact, yfact) ==
    {[i \in 1..Len(p) |-> <<p[i][1] * xfact, p[i][2] * yfact>>] : p \in geom}

\* shapely.ops.unary_union(list of geometries): the bounds of a union are
\* those of its parts, so the union keeps the parts.
unary_union(geoms) == UNION geoms

\* geom.bounds = (minx, miny, maxx, maxy), for a non-empty geometry
bounds_of(geom) ==
    LET xs == UNION {{p[i][1] : i \in 1..Len(p)} : p \in geom}
        ys == UNION {{p[i][2] : i \in 1..Len(p)} : p \in geom}
    IN  <<SetMin(xs), SetMin(ys), SetMax(xs), SetMax(ys)>>

-----------------------------------------------------------------------------
(* gplugins helpers that xyz_mesh.py imports *)

\* gplugins.common.utils.parse_layer_stack.list_unique_layer_stack_z:
\* the distinct z values at which a layer of the stack starts or ends.
list_unique_layer_stack_z(ls) ==
    {ls.val[n].zmin : n \in DOMAIN ls.val} \cup
    {ls.val[n].zmin + ls.val[n].thickness : n \in DOMAIN ls.val}

\* The z_to_bias bufferize gives a layer that has none: vertical walls.
VerticalWalls == <<<<0, 1>>, <<0, 0>>>>

\* gplugins.gmsh.parse_component.bufferize: a layer that has a z_to_bias keeps
\* it.  For a layer without one the two possible outcomes are kept apart by
\* fills: the layer gets the vertical-wall profile, or stays without.
bufferize(ls, fills) ==
    [keys |-> ls.keys,
     val  |-> [n \in DOMAIN ls.val |->
                 IF ls.val[n].z_to_bias = None /\ fills
                 THEN [ls.val[n] EXCEPT !.z_to_bias = VerticalWalls]
                 ELSE ls.val[n]]]

\* gplugins.gmsh.parse_gds.cleanup_component: the fused geometry of each
\* layer of the stack (rounding and simplification leave the modelled
\* integer coordinates as they are).
cleanup_component(component, ls) ==
    [n \in DOMAIN ls.val |-> component.polygons[n]]

-----------------------------------------------------------------------------
(* define_edgeport *)

\* dict.get(key) / dict.get(key, default) on an edge_ports entry
Get(port_dict, key, default) ==
    IF port_dict[key] = None THEN default ELSE port_dict[key][1]

Orientations == {0, 90, 180, 270}

\* The exception define_edgeport ends with, "" when it returns.
define_edgeport_raises(port, port_dict) ==
    IF port_dict["zmin"] = None \/ port_dict["zmax"] = None
    THEN "TypeError"              \* line 37: zmax - zmin with a None operand
    ELSE IF port.orientation \notin Orientations
    THEN "UnboundLocalError"      \* line 62: dx, dy never assigned
    ELSE ""

\* (variant of edgeport_entity: the box is left to the default meshing)
edgeport_entity_meshed(kwargs, port, port_dict) ==
    [kind |-> "GMSH_entity",
     gmsh_function_kwargs |-> kwargs,
     dimension |-> 3,
     resolution |-> port_dict["resolution"],
     mesh_order |-> 0,
     mesh_bool |-> TRUE,
     physical_name |-> Get(port_dict, "physical_name", port.name)]

\* lines 60-69: the GMSH_entity of the box
edgeport_entity(kwargs, port, port_dict) ==
    [kind |-> "GMSH_entity",
     gmsh_function_kwargs |-> kwargs,
     dimension |-> 3,
     resolution |-> port_dict["resolution"],
     mesh_order |-> 0,
     mesh_bool |-> FALSE,
     physical_name |-> Get(port_dict, "physical_name", port.name)]

\* The box define_edgeport returns (when it returns).  dy / 2 and dx / 2 are
\* exact: the modelled port widths are even.
define_edgeport(port, port_dict) ==
    LET zmin == port_dict["zmin"][1]
        zmax == port_dict["zmax"][1]
        dz == zmax - zmin
        x0 == port.center[1]
        y0 == port.center[2]
        width_pad == Get(port_dict, "width_pad", 0)
        o == port.orientation
        dx == IF o \in {180, 0} THEN 1 ELSE port.width + 2 * width_pad
        dy == IF o \in {180, 0} THEN port.width + 2 * width_pad ELSE 1
        x == CASE o = 180 -> x0 - dx
               [] o = 0   -> x0
               [] o = 90  -> x0 - dx \div 2
               [] o = 270 -> x0 - dx \div 2
        y == CASE o = 180 -> y0 - dy \div 2
               [] o = 0   -> y0 - dy \div 2
               [] o = 90  -> y0
               [] o = 270 -> y0 - dy
    IN  edgeport_entity([x |-> x, y |-> y, z |-> zmin, dx |-> dx, dy |-> dy, dz |-> dz],
                        port, port_dict)

-----------------------------------------------------------------------------
(* define_prisms *)

\* (variant of layer_is_skipped: the is_empty test is missing)
layer_is_skipped_unless_biased(layername, lpd, bls) ==
    bls.val[layername].z_to_bias = None

\* lines 101-109: the two "continue" tests of the loop body
layer_is_skipped(layername, lpd, bls) ==
    \/ lpd[layername] = {}
    \/ bls.val[layername].z_to_bias = None

\* lines 111-118: buffer_dict
buffer_dict(layer_, scale_factor) ==
    LET coords == layer_.z_to_bias[1]
        zs == ArrayPlus(ArrayTimes(ArrayTimes(coords, layer_.thickness), scale_factor),
                        layer_.zmin * scale_factor)
        buffers == ArrayTimes(layer_.z_to_bias[2], scale_factor)
    IN  DictZip(zs, buffers)

\* (variant of physical_name_of: the map is not consulted)
physical_name_unmapped(layername, layer_physical_map) == layername

\* lines 131-133
physical_name_of(layername, layer_physical_map) ==
    IF layername \in DOMAIN layer_physical_map
    THEN layer_physical_map[layername]
    ELSE layername

\* lines 120-136: the Prism of one layer
prism_of(layername, lpd, bls, layer_physical_map, layer_meshbool_map, res, scale_factor) ==
    [kind |-> "Prism",
     polygons |-> scale(lpd[layername], scale_factor, scale_factor),
     buffers |-> buffer_dict(bls.val[layername], scale_factor),
     resolution |-> IF layername \in DOMAIN res THEN Some(res[layername]) ELSE None,
     mesh_order |-> bls.val[layername].mesh_order,
     physical_name |-> physical_name_of(layername, layer_physical_map),
     mesh_bool |-> IF layername \in DOMAIN layer_meshbool_map
                   THEN layer_meshbool_map[layername]
                   ELSE TRUE]

\* lines 100-136: the loop over buffered_layer_stack.layers.keys(), from the
\* i-th key on, prisms being the list built so far
RECURSIVE prisms_loop(_, _, _, _, _, _, _, _)
prisms_loop(i, prisms, lpd, bls, layer_physical_map, layer_meshbool_map, res, scale_factor) ==
    IF i > Len(bls.keys)
    THEN prisms
    ELSE prisms_loop(i + 1,
             IF layer_is_skipped(bls.keys[i], lpd, bls)
             THEN prisms
             ELSE Append(prisms, prism_of(bls.keys[i], lpd, bls, layer_physical_map,
                                          layer_meshbool_map, res, scale_factor)),
             lpd, bls, layer_physical_map, layer_meshbool_map, res, scale_factor)

\* define_prisms; fills is the outcome of bufferize (see there)
define_prisms(lpd, ls, layer_physical_map, layer_meshbool_map, res, scale_factor, fills) ==
    prisms_loop(1, <<>>, lpd, bufferize(ls, fills), layer_physical_map, layer_meshbool_map,
                IF res = None THEN <<>> ELSE res[1], scale_factor)

-----------------------------------------------------------------------------
(* xyz_mesh: the background block, lines 224-273 *)

\* (variant of background_polygon: the top edge takes the -y padding)
background_polygon_top_slip(bounds, background_padding, global_scaling_premesh) ==
    scale(Polygon(<< <<bounds[1] - background_padding[1], bounds[2] - background_padding[2]>>,
                     <<bounds[1] - background_padding[1], bounds[4] + background_padding[2]>>,
                     <<bounds[3] + background_padding[4], bounds[4] + background_padding[2]>>,
                     <<bounds[3] + background_padding[4], bounds[2] - background_padding[2]>> >>),
          global_scaling_premesh, global_scaling_premesh)

\* lines 233-256: the rectangle around the component, scaled
background_polygon(bounds, background_padding, global_scaling_premesh) ==
    scale(Polygon(<< <<bounds[1] - background_padding[1], bounds[2] - background_padding[2]>>,
                     <<bounds[1] - background_padding[1], bounds[4] + background_padding[5]>>,
                     <<bounds[3] + background_padding[4], bounds[4] + background_padding[5]>>,
                     <<bounds[3] + background_padding[4], bounds[2] - background_padding[2]>> >>),
          global_scaling_premesh, global_scaling_premesh)

\* lines 260-271: the LayerLevel of the background
background_level(zs, background_padding, background_tag, background_mesh_order, global_scaling_premesh) ==
    LET zmin == SetMin(zs)
        zmax == SetMax(zs)
    IN  [layer |-> <<999, 0>>,
         thickness |-> ((zmax + background_padding[6]) - (zmin - background_padding[3]))
                       * global_scaling_premesh,
         zmin |-> (zmin - background_padding[3]) * global_scaling_premesh,
         material |-> background_tag,
         mesh_order |-> background_mesh_order,
         z_to_bias |-> None]

\* lines 302-308: deepcopy, then scale every "resolution"; None and {} become {}
scaled_resolutions(res, global_scaling_premesh) ==
    IF res = None \/ res = Some(<<>>)
    THEN <<>>
    ELSE [n \in DOMAIN res[1] |->
            [resolution |-> res[1][n].resolution * global_scaling_premesh]]

-----------------------------------------------------------------------------
(* The calls of xyz_mesh that are modelled *)

LayerNameSeq == <<"core", "clad", "box", "nitride">>
LayerNames(n) == {LayerNameSeq[i] : i \in 1..n}

Rect == << <<0, 0>>, <<0, 2>>, <<4, 2>>, <<4, 0>> >>
Tri == << <<-1, -1>>, <<3, 5>>, <<5, 1>> >>
Slanted == << <<0, 1>>, <<1, 0>> >>

PhysName == [core |-> "silicon", clad |-> "oxide", box |-> "oxide", nitride |-> "sin"]

Level(thickness, zmin, mesh_order, z_to_bias) ==
    [layer |-> <<1, 0>>, thickness |-> thickness, zmin |-> zmin, material |-> "si",
     mesh_order |-> mesh_order, z_to_bias |-> z_to_bias]

\* the layer stacks with the first n layer names, each level drawn from Levels
Stacks(n, Levels) ==
    {[keys |-> SubSeq(LayerNameSeq, 1, n), val |-> v] : v \in [LayerNames(n) -> Levels]}

Port(name, orientation) ==
    [name |-> name, center |-> <<4, 1>>, width |-> 2, orientation |-> orientation,
     layer |-> "core"]

DefaultPorts == [o1 |-> Port("o1", 0), o2 |-> Port("o2", 90)]

\* one xyz_mesh call: its arguments (port_names is None), the ports and
\* per-layer geometry of component, and the outcome of bufferize
Call(polygons, ports, ls, pmap, bmap, res, tag, padding, s, edge_ports, fills) ==
    [component |-> [polygons |-> polygons, ports |-> ports],
     layer_stack |-> ls,
     layer_physical_map |-> pmap,
     layer_meshbool_map |-> bmap,
     resolutions |-> res,
     background_tag |-> tag,
     background_padding |-> padding,
     background_mesh_order |-> 100,
     global_scaling_premesh |-> s,
     edge_ports |-> edge_ports,
     bufferize_fills |-> fills]

Paddings == {<<2, 2, 2, 2, 2, 2>>, <<1, 2, 3, 4, 5, 6>>}

\* A background needs a component with geometry: the bounds of an empty
\* union are not numbers.
HasGeometry(polygons) == \E n \in DOMAIN polygons : polygons[n] # {}

\* calls that vary the geometry, the z extents and the background arguments
BackgroundCalls ==
    UNION {{Call(polygons, DefaultPorts, ls, <<>>, <<>>, None, tag, padding, s, None, fills) :
              polygons \in [LayerNames(n) -> {{}, {Rect}, {Tri}}],
              ls \in Stacks(n, {Level(1, 0, 1, None), Level(2, -1, 2, None)}),
              tag \in {None, Some("background"), Some("core")},
              padding \in Paddings,
              s \in 1..MaxScale,
              fills \in BOOLEAN}
           : n \in 1..MaxLayers}

\* calls that vary what decides whether a layer gets a prism
PrismCalls ==
    UNION {{Call(polygons, DefaultPorts, ls, <<>>, <<>>, None, tag, <<2, 2, 2, 2, 2, 2>>, 1, None, fills) :
              polygons \in [LayerNames(n) -> {{}, {Rect}}],
              ls \in Stacks(n, {Level(1, 0, mo, zb) : mo \in 1..2, zb \in {None, Slanted}}),
              tag \in {None, Some("background")},
              fills \in BOOLEAN}
           : n \in 1..MaxLayers}

\* calls that vary the three per-layer maps
MapCalls ==
    UNION {{Call([m \in LayerNames(n) |-> {Rect}], DefaultPorts, ls, pmap, bmap, res, tag, <<2, 2, 2, 2, 2, 2>>, 2, None, TRUE) :
              ls \in Stacks(n, {Level(1, 0, 1, Slanted)}),
              pmap \in {[m \in D |-> PhysName[m]] : D \in SUBSET LayerNames(n)},
              bmap \in UNION {[D -> BOOLEAN] : D \in SUBSET LayerNames(n)},
              res \in {None} \cup
                      {Some([m \in D |-> [resolution |-> 3]]) : D \in SUBSET LayerNames(n)},
              tag \in {None, Some("background")}}
           : n \in 1..MaxLayers}

\* the sequences over S of length 1..MaxLevels
Profiles(S) == UNION {[1..k -> S] : k \in 1..MaxLevels}

\* calls that vary the z_to_bias profile of a one-layer stack
BiasCalls ==
    {Call([m \in LayerNames(1) |-> {Rect}], DefaultPorts, ls, <<>>, <<>>, None, None, <<2, 2, 2, 2, 2, 2>>, s, None, TRUE) :
       ls \in Stacks(1, {Level(t, z, 1, <<cs, bs>>) :
                           t \in 0..2, z \in {-1, 0}, cs \in Profiles(0..1), bs \in Profiles(0..1)}),
       s \in 1..MaxScale}

PortDicts ==
    {[zmin |-> zmin, zmax |-> zmax, width_pad |-> extra[1], resolution |-> extra[2],
      physical_name |-> extra[3]] :
       zmin \in {None, Some(-1)}, zmax \in {None, Some(1)},
       extra \in {<<None, None, None>>, <<Some(1), Some([resolution |-> 1]), Some("edgeport")>>}}

\* edge_ports dicts: sequences of <<port name, port_dict>> with distinct names
EdgePortDicts ==
    UNION {{e \in [1..k -> {"o1", "o2", "o9"} \X PortDicts] :
              \A i, j \in 1..k : i # j => e[i][1] # e[j][1]} : k \in 0..MaxEdgePorts}

\* calls that vary edge_ports and the orientation of port o1
PortCalls ==
    {Call([m \in LayerNames(2) |-> {Rect}], [DefaultPorts EXCEPT !.o1 = Port("o1", o)], ls, <<>>, <<>>, None, None, <<2, 2, 2, 2, 2, 2>>, 1, ep, TRUE) :
       ls \in Stacks(2, {Level(1, 0, 1, Slanted)}),
       o \in {0, 90, 180, 270, 45},
       ep \in {None} \cup {Some(e) : e \in EdgePortDicts}}

\* the modelled calls
IsCall(c) ==
    /\ \/ c \in BackgroundCalls
       \/ c \in PrismCalls
       \/ c \in MapCalls
       \/ c \in BiasCalls
       \/ c \in PortCalls
    /\ c.background_tag # None => HasGeometry(c.component.polygons)

-----------------------------------------------------------------------------
(* xyz_mesh *)

Init ==
    /\ IsCall(args)
    /\ pc = "cleanup"
    /\ layer_polygons_dict = <<>>
    /\ layer_stack = args.layer_stack
    /\ prisms_list = <<>>
    /\ resolutions = args.resolutions
    /\ ep_idx = 0
    /\ raised = ""
    /\ entities_list = None

\* lines 207-221 (port_names is None): layer_polygons_dict = cleanup_component(...)
CleanupComponent ==
    /\ pc = "cleanup"
    /\ layer_polygons_dict' = cleanup_component(args.component, layer_stack)
    /\ pc' = "background"
    /\ UNCHANGED <<args, layer_stack, prisms_list, resolutions, ep_idx, raised, entities_list>>

\* lines 224-273, background_tag is not None
AddBackground ==
    /\ pc = "background"
    /\ args.background_tag # None
    /\ LET background_tag == args.background_tag[1]
           bbox == unary_union({layer_polygons_dict[n] : n \in DOMAIN layer_polygons_dict})
           bounds == bounds_of(bbox)
           zs == list_unique_layer_stack_z(layer_stack)
       IN  /\ layer_polygons_dict' =
                 DictSet(layer_polygons_dict, background_tag,
                         background_polygon(bounds, args.background_padding,
                                            args.global_scaling_premesh))
           /\ layer_stack' =
                 DictUnion(layer_stack, background_tag,
                           background_level(zs, args.background_padding, background_tag,
                                            args.background_mesh_order,
                                            args.global_scaling_premesh))
    /\ pc' = "prisms"
    /\ UNCHANGED <<args, prisms_list, resolutions, ep_idx, raised, entities_list>>

\* line 224, background_tag is None
NoBackground ==
    /\ pc = "background"
    /\ args.background_tag = None
    /\ pc' = "prisms"
    /\ UNCHANGED <<args, layer_polygons_dict, layer_stack, prisms_list, resolutions,
                   ep_idx, raised, entities_list>>

\* lines 276-288: prisms_list = define_prisms(...), then the edge_ports test
DefinePrisms ==
    /\ pc = "prisms"
    /\ prisms_list' = define_prisms(layer_polygons_dict, layer_stack,
                                    args.layer_physical_map, args.layer_meshbool_map,
                                    resolutions, args.global_scaling_premesh,
                                    args.bufferize_fills)
    /\ pc' = IF args.edge_ports = None \/ args.edge_ports = Some(<<>>)
             THEN "resolutions"
             ELSE "edgeports"
    /\ UNCHANGED <<args, layer_polygons_dict, layer_stack, resolutions, ep_idx, raised,
                   entities_list>>

\* lines 290-299: one iteration of the loop over edge_ports.items()
DefineEdgeport ==
    /\ pc = "edgeports"
    /\ LET items == args.edge_ports[1]
           portname == items[ep_idx + 1][1]
           edge_ports_dict == items[ep_idx + 1][2]
           ports == args.component.ports
       IN  IF portname \notin DOMAIN ports
           THEN /\ raised' = "KeyError"          \* line 291
                /\ pc' = "raised"
                /\ UNCHANGED <<prisms_list, ep_idx>>
           ELSE IF define_edgeport_raises(ports[portname], edge_ports_dict) # ""
           THEN /\ raised' = define_edgeport_raises(ports[portname], edge_ports_dict)
                /\ pc' = "raised"
                /\ ep_idx' = ep_idx + 1
                /\ UNCHANGED prisms_list
           ELSE /\ prisms_list' = Append(prisms_list,
                                         define_edgeport(ports[portname], edge_ports_dict))
                /\ ep_idx' = ep_idx + 1
                /\ pc' = IF ep_idx + 1 = Len(items) THEN "resolutions" ELSE "edgeports"
                /\ UNCHANGED raised
    /\ UNCHANGED <<args, layer_polygons_dict, layer_stack, resolutions, entities_list>>

\* lines 300-308
ScaleResolutions ==
    /\ pc = "resolutions"
    /\ resolutions' = Some(scaled_resolutions(resolutions, args.global_scaling_premesh))
    /\ pc' = "mesh"
    /\ UNCHANGED <<args, layer_polygons_dict, layer_stack, prisms_list, ep_idx, raised,
                   entities_list>>

\* lines 310-321: model.mesh(entities_list=prisms_list, ...)
Mesh ==
    /\ pc = "mesh"
    /\ entities_list' = Some(prisms_list)
    /\ pc' = "done"
    /\ UNCHANGED <<args, layer_polygons_dict, layer_stack, prisms_list, resolutions,
                   ep_idx, raised>>

Next ==
    \/ CleanupComponent
    \/ AddBackground
    \/ NoBackground
    \/ DefinePrisms
    \/ DefineEdgeport
    \/ ScaleResolutions
    \/ Mesh

Spec == Init /\ [][Next]_vars

-----------------------------------------------------------------------------
(* Vocabulary of the properties *)

AfterBackground == pc \notin {"cleanup", "background"}
AfterPrisms == pc \notin {"cleanup", "background", "prisms"}

\* the Prism entities and the edge-port boxes of the entity list, in order
ThePrisms == SelectSeq(prisms_list, LAMBDA e : e.kind = "Prism")
TheBoxes == SelectSeq(prisms_list, LAMBDA e : e.kind = "GMSH_entity")

\* the layer stack define_prisms iterates over
Buffered == bufferize(layer_stack, args.bufferize_fills)

\* the layers with a non-empty polygon set and a z_to_bias, in stack order
IsEligible(n) == layer_polygons_dict[n] # {} /\ Buffered.val[n].z_to_bias # None
EligibleLayers == SelectSeq(Buffered.keys, IsEligible)

\* the k-th prism is the extrusion of layer n
IsPrismOfLayer(prism, n) ==
    /\ prism.kind = "Prism"
    /\ prism.polygons = {[i \in 1..Len(p) |->
                            <<p[i][1] * args.global_scaling_premesh,
                              p[i][2] * args.global_scaling_premesh>>] :
                         p \in layer_polygons_dict[n]}
    /\ prism.mesh_order = Buffered.val[n].mesh_order

\* the edge_ports entries, as a sequence of <<port name, port_dict>>
EdgePortItems == IF args.edge_ports = None THEN <<>> ELSE args.edge_ports[1]

-----------------------------------------------------------------------------
\* C6: define_prisms returns exactly one prism for each layer of the buffered
\* layer stack that has a non-empty polygon set and a z_to_bias, none for any
\* other layer, in the order of the stack's layers.
C6_OnePrismPerEligibleLayer ==
    AfterPrisms =>
        /\ Len(ThePrisms) = Len(EligibleLayers)
        /\ \A k \in 1..Len(EligibleLayers) : IsPrismOfLayer(ThePrisms[k], EligibleLayers[k])

\* a call where one layer is left out for its empty geometry or missing
\* z_to_bias, and two layers of different mesh order yield prisms
C6_Witness ==
    /\ pc = "done"
    /\ Len(EligibleLayers) < Len(Buffered.keys)
    /\ Len(ThePrisms) >= 2
    /\ ThePrisms[1].mesh_order # ThePrisms[2].mesh_order

-----------------------------------------------------------------------------
\* C5: the prism of layer L has physical_name layer_physical_map[L] if L is a
\* key and L otherwise, mesh_bool layer_meshbool_map[L] if L is a key and True
\* otherwise, the mesh_order of L in the layer stack, and resolution
\* resolutions[L] if present, else None (also when resolutions is None).
C5_PrismAttributes ==
    AfterPrisms =>
        \A k \in 1..Len(ThePrisms) :
            k <= Len(EligibleLayers) =>
                LET L == EligibleLayers[k]
                    prism == ThePrisms[k]
                    pmap == args.layer_physical_map
                    bmap == args.layer_meshbool_map
                IN  /\ prism.physical_name = IF L \in DOMAIN pmap THEN pmap[L] ELSE L
                    /\ prism.mesh_bool = IF L \in DOMAIN bmap THEN bmap[L] ELSE TRUE
                    /\ prism.mesh_order = layer_stack.val[L].mesh_order
                    /\ prism.resolution =
                          IF args.resolutions # None /\ L \in DOMAIN args.resolutions[1]
                          THEN <<args.resolutions[1][L]>>
                          ELSE <<>>

\* a call where one prism's layer is in all three maps (and not meshed) and
\* another prism's layer is in none
C5_Witness ==
    /\ pc = "done"
    /\ args.resolutions # None
    /\ Len(ThePrisms) = Len(EligibleLayers)
    /\ \E k \in 1..Len(ThePrisms) :
          /\ EligibleLayers[k] \in DOMAIN args.layer_physical_map
          /\ EligibleLayers[k] \in DOMAIN args.layer_meshbool_map
          /\ EligibleLayers[k] \in DOMAIN args.resolutions[1]
          /\ ~ThePrisms[k].mesh_bool
    /\ \E k \in 1..Len(ThePrisms) :
          /\ EligibleLayers[k] \notin DOMAIN args.layer_physical_map
          /\ EligibleLayers[k] \notin DOMAIN args.layer_meshbool_map
          /\ EligibleLayers[k] \notin DOMAIN args.resolutions[1]

-----------------------------------------------------------------------------
(* C7: the buffers of a prism *)

\* the z of the i-th z_to_bias coordinate of level lvl
LevelZ(lvl, i) ==
    (lvl.z_to_bias[1][i] * lvl.thickness + lvl.zmin) * args.global_scaling_premesh

\* the number of z_to_bias levels zip pairs up
PairedLevels(lvl) == MinOf(Len(lvl.z_to_bias[1]), Len(lvl.z_to_bias[2]))

\* C7 as stated: the buffers map of a prism has one entry per z_to_bias
\* coordinate, the i-th coordinate c_i with bias b_i giving the entry
\* (c_i * thickness + zmin) * scale_factor -> b_i * scale_factor, so that the
\* number of entries equals the number of coordinates.  (Stated for the
\* profiles that pair every coordinate with a bias.)
C7_OneBufferPerCoordinate ==
    AfterPrisms =>
        \A k \in 1..Len(ThePrisms) :
            k <= Len(EligibleLayers) =>
                LET lvl == Buffered.val[EligibleLayers[k]]
                    buffers == ThePrisms[k].buffers
                    coords == lvl.z_to_bias[1]
                    biases == lvl.z_to_bias[2]
                IN  Len(coords) = Len(biases) =>
                        /\ Cardinality(DOMAIN buffers) = Len(coords)
                        /\ \A i \in 1..Len(coords) :
                              /\ LevelZ(lvl, i) \in DOMAIN buffers
                              /\ buffers[LevelZ(lvl, i)] =
                                     biases[i] * args.global_scaling_premesh

\* C7 as amended: the buffers map has one entry per distinct z among the
\* levels that have both a coordinate and a bias; a z that several levels
\* share maps to the bias of the last of them.  The number of entries is the
\* number of coordinates when there are as many biases as coordinates and the
\* z values are pairwise distinct.
C7_OneBufferPerDistinctZ ==
    AfterPrisms =>
        \A k \in 1..Len(ThePrisms) :
            k <= Len(EligibleLayers) =>
                LET lvl == Buffered.val[EligibleLayers[k]]
                    buffers == ThePrisms[k].buffers
                    n == PairedLevels(lvl)
                    isLast(i) == \A j \in (i + 1)..n : LevelZ(lvl, j) # LevelZ(lvl, i)
                IN  /\ DOMAIN buffers = {LevelZ(lvl, i) : i \in 1..n}
                    /\ \A i \in 1..n :
                          isLast(i) =>
                              buffers[LevelZ(lvl, i)] =
                                  lvl.z_to_bias[2][i] * args.global_scaling_premesh
                    /\ (/\ n = Len(lvl.z_to_bias[1])
                        /\ \A i \in 1..n : isLast(i))
                       => Cardinality(DOMAIN buffers) = Len(lvl.z_to_bias[1])

\* a prism whose layer has two levels at the same z with different biases:
\* the map keeps one entry, with the later bias
C7_Witness ==
    /\ pc = "done"
    /\ Len(ThePrisms) = 1
    /\ Len(EligibleLayers) = 1
    /\ LET lvl == Buffered.val[EligibleLayers[1]]
       IN  /\ Len(lvl.z_to_bias[1]) = 2
           /\ Len(lvl.z_to_bias[2]) = 2
           /\ LevelZ(lvl, 1) = LevelZ(lvl, 2)
           /\ lvl.z_to_bias[2][1] # lvl.z_to_bias[2][2]
           /\ Cardinality(DOMAIN ThePrisms[1].buffers) = 1

-----------------------------------------------------------------------------
(* C3: the background layer *)

\* every vertex of the cleaned layer polygons of the component
ComponentVertices ==
    UNION {UNION {{p[i] : i \in 1..Len(p)} : p \in args.component.polygons[n]}
           : n \in DOMAIN args.layer_stack.val}

\* the z values at which a layer of the given stack starts or ends
StackZs ==
    UNION {{args.layer_stack.val[n].zmin,
            args.layer_stack.val[n].zmin + args.layer_stack.val[n].thickness}
           : n \in DOMAIN args.layer_stack.val}

\* C3: with background_tag not None and global_scaling_premesh = 1 there is a
\* layer background_tag whose footprint is the bounding rectangle of all layer
\* polygons, extended by padding[0], padding[1] below and padding[3],
\* padding[4] above, whose z range is [zmin - padding[2], zmax + padding[5]],
\* with mesh_order background_mesh_order and material background_tag.  With
\* background_tag None, layer_polygons_dict and layer_stack stay as they were.
C3_BackgroundLayer ==
    AfterBackground =>
        IF args.background_tag = None
        THEN /\ layer_stack = args.layer_stack
             /\ DOMAIN layer_polygons_dict = DOMAIN args.layer_stack.val
             /\ \A n \in DOMAIN layer_polygons_dict :
                   layer_polygons_dict[n] = args.component.polygons[n]
        ELSE args.global_scaling_premesh = 1 =>
             LET tag == args.background_tag[1]
                 pad == args.background_padding
                 x0 == SetMin({v[1] : v \in ComponentVertices}) - pad[1]
                 y0 == SetMin({v[2] : v \in ComponentVertices}) - pad[2]
                 x1 == SetMax({v[1] : v \in ComponentVertices}) + pad[4]
                 y1 == SetMax({v[2] : v \in ComponentVertices}) + pad[5]
             IN  /\ tag \in DOMAIN layer_polygons_dict
                 /\ tag \in DOMAIN layer_stack.val
                 /\ \E i \in 1..Len(layer_stack.keys) : layer_stack.keys[i] = tag
                 /\ \E p \in layer_polygons_dict[tag] :
                       /\ layer_polygons_dict[tag] = {p}
                       /\ Len(p) = 4
                       /\ {p[i] : i \in 1..4} =
                              {<<x0, y0>>, <<x0, y1>>, <<x1, y1>>, <<x1, y0>>}
                 /\ layer_stack.val[tag].zmin = SetMin(StackZs) - pad[3]
                 /\ layer_stack.val[tag].zmin + layer_stack.val[tag].thickness
                        = SetMax(StackZs) + pad[6]
                 /\ layer_stack.val[tag].mesh_order = args.background_mesh_order
                 /\ layer_stack.val[tag].material = tag

\* a background added at scale 1 around a two-layer component, with six
\* different paddings
C3_Witness ==
    /\ pc = "done"
    /\ args.background_tag = <<"background">>
    /\ args.global_scaling_premesh = 1
    /\ args.background_padding = <<1, 2, 3, 4, 5, 6>>
    /\ Len(args.layer_stack.keys) = 2
    /\ layer_stack.keys = Append(args.layer_stack.keys, "background")
    /\ \A n \in DOMAIN args.layer_stack.val : args.component.polygons[n] # {}

\* a call without background that reached the mesher
C3_WitnessNoBackground ==
    /\ pc = "done"
    /\ args.background_tag = <<>>
    /\ layer_stack = args.layer_stack

-----------------------------------------------------------------------------
(* C4: the edge-port boxes *)

\* C4: every edge-port box has mesh_bool False, mesh_order 0 and dimension 3,
\* whatever its port_dict holds; and the entity list handed to the mesher is
\* the layer prisms, in layer-stack order, followed by one box per edge_ports
\* entry, in the order of edge_ports.
C4_BoxesUnmeshedAndLast ==
    /\ \A i \in 1..Len(prisms_list) :
          prisms_list[i].kind = "GMSH_entity" =>
              /\ prisms_list[i].mesh_bool = FALSE
              /\ prisms_list[i].mesh_order = 0
              /\ prisms_list[i].dimension = 3
    /\ entities_list # None =>
          LET ents == entities_list[1]
              np == Len(EligibleLayers)
              ne == Len(EdgePortItems)
          IN  /\ Len(ents) = np + ne
              /\ \A k \in 1..Len(ents) :
                    IF k <= np
                    THEN IsPrismOfLayer(ents[k], EligibleLayers[k])
                    ELSE /\ k - np <= ne
                         /\ ents[k].kind = "GMSH_entity"
                         /\ ents[k].physical_name =
                               Get(EdgePortItems[k - np][2], "physical_name",
                                   EdgePortItems[k - np][1])
                         /\ ents[k].resolution = EdgePortItems[k - np][2]["resolution"]

\* the mesher got two prisms followed by the boxes of two edge ports, one of
\* which sets every key of its port_dict
C4_Witness ==
    /\ pc = "done"
    /\ Len(ThePrisms) = 2
    /\ Len(TheBoxes) = 2
    /\ entities_list[1][3].kind = "GMSH_entity"
    /\ entities_list[1][3].physical_name # entities_list[1][4].physical_name
    /\ \E i \in 1..2 : EdgePortItems[i][2]["width_pad"] # None

-----------------------------------------------------------------------------
(* C1: the default z extent of an edge port *)

\* the LayerLevel of the layer a port is on
PortLevel(port) == layer_stack.val[port.layer]

\* C1: for an edge_ports entry without zmin the box starts at the port
\* layer's zmin, for an entry without zmax it ends at the port layer's
\* zmin + thickness: define_edgeport returns such a box, and does not fail,
\* for every port_dict that lacks zmin and/or zmax.
C1_EdgePortDefaultZ ==
    \A i \in 1..ep_idx :
        LET port == args.component.ports[EdgePortItems[i][1]]
            port_dict == EdgePortItems[i][2]
        IN  (port.orientation \in Orientations
             /\ (port_dict["zmin"] = None \/ port_dict["zmax"] = None)) =>
                /\ raised = ""
                /\ Len(TheBoxes) >= i
                /\ LET kw == TheBoxes[i].gmsh_function_kwargs
                   IN  /\ port_dict["zmin"] = None => kw.z = PortLevel(port).zmin
                       /\ port_dict["zmax"] = None =>
                             kw.z + kw.dz = PortLevel(port).zmin + PortLevel(port).thickness

-----------------------------------------------------------------------------
(* C2: global_scaling_premesh *)

\* what xyz_mesh computes up to and including define_prisms, as a function
\* of global_scaling_premesh
PrismsAtScale(s) ==
    LET lpd0 == cleanup_component(args.component, args.layer_stack)
        tag == args.background_tag[1]
        lpd1 == IF args.background_tag = None
                THEN lpd0
                ELSE DictSet(lpd0, tag,
                             background_polygon(
                                 bounds_of(unary_union({lpd0[n] : n \in DOMAIN lpd0})),
                                 args.background_padding, s))
        ls1 == IF args.background_tag = None
               THEN args.layer_stack
               ELSE DictUnion(args.layer_stack, tag,
                              background_level(list_unique_layer_stack_z(args.layer_stack),
                                               args.background_padding, tag,
                                               args.background_mesh_order, s))
    IN  define_prisms(lpd1, ls1, args.layer_physical_map, args.layer_meshbool_map,
                      args.resolutions, s, args.bufferize_fills)

\* prism is ref with every coordinate multiplied by s
IsScaledPrism(prism, ref, s) ==
    /\ prism.polygons = {[i \in 1..Len(p) |-> <<s * p[i][1], s * p[i][2]>>] : p \in ref.polygons}
    /\ DOMAIN prism.buffers = {s * z : z \in DOMAIN ref.buffers}
    /\ \A z \in DOMAIN ref.buffers :
          s * z \in DOMAIN prism.buffers => prism.buffers[s * z] = s * ref.buffers[z]

\* C2: every prism handed to the mesher, the background prism included, has
\* footprint coordinates, buffer z levels and buffer offsets equal to
\* global_scaling_premesh times those obtained with global_scaling_premesh = 1.
C2_PremeshScalesOnce ==
    entities_list # None =>
        LET s == args.global_scaling_premesh
            ref == PrismsAtScale(1)
        IN  /\ Len(ThePrisms) = Len(ref)
            /\ \A k \in 1..Len(ref) :
                  k <= Len(ThePrisms) => IsScaledPrism(ThePrisms[k], ref[k], s)

\* the same, for the calls without background
C2_ScalesOnceWithoutBackground ==
    args.background_tag = None => C2_PremeshScalesOnce

====
